---- MODULE Spec2Model ----
(***************************************************************************)
(* Model of scripts/plot_stats.py: the statistical transforms (plot_pdf,   *)
(* load_moments, moments_from_histogram, plot_moments, output_filename)    *)
(* and the module-level render loop that runs inside "with h5py.File".     *)
(*                                                                         *)
(* Real numbers are exact rationals <<n, d>> in lowest terms with d > 0.   *)
(* The non-finite floats are <<0, 0>> (nan), <<1, 0>> (inf) and            *)
(* <<-1, 0>> (-inf).  Floating-point rounding is not modelled.  Arrays are *)
(* sequences; Python's 0-based index k is element k + 1.                   *)
(***************************************************************************)
EXTENDS Integers, Sequences, FiniteSets, TLC

VARIABLES
    flag,     \* MOMENTS_FROM_HISTOGRAM
    store,    \* contents of the HDF5 file (never written: opened with 'r')
    pc,       \* position of the module-level code / of a single call
    ff,       \* state of the h5py.File object: "unopened", "open", "closed"
    params,   \* the params dict built from /ParamsGP
    axes,     \* axes[i][j]: curves that ax.plot has drawn on axes[i, j]
    printed,  \* values printed by plot_pdf ('PDF integral:')
    trace,    \* calls made by the module-level code, in order
    saved,    \* file names passed to fig.savefig
    shown,    \* plt.show() has been called
    err,      \* exception that left the with block ("none" if none)
    arg,      \* single-call runs: the arguments of the call
    ret       \* single-call runs: the value returned by the call

vars == <<flag, store, pc, ff, params, axes, printed, trace, saved, shown,
          err, arg, ret>>

----------------------------------------------------------------------------
(* Exact arithmetic                                                        *)

Abs(n) == IF n < 0 THEN -n ELSE n

RECURSIVE GCD(_, _)
GCD(a, b) == IF b = 0 THEN a ELSE GCD(b, a % b)

NaN == <<0, 0>>
PosInf == <<1, 0>>
NegInf == <<-1, 0>>

R(n) == <<n, 1>>

IsFinite(a) == a[2] # 0

Sign(n) == IF n > 0 THEN 1 ELSE IF n < 0 THEN -1 ELSE 0

\* n / d in lowest terms, d # 0
Rat(n, d) ==
    LET g == GCD(Abs(n), Abs(d))
        s == IF d < 0 THEN -1 ELSE 1
    IN  <<s * (n \div g), s * (d \div g)>>

RNeg(a) == <<-a[1], a[2]>>

RAbs(a) == <<Abs(a[1]), a[2]>>

RAdd(a, b) ==
    LET g == GCD(a[2], b[2])
    IN  Rat(a[1] * (b[2] \div g) + b[1] * (a[2] \div g), (a[2] \div g) * b[2])

RSub(a, b) == RAdd(a, RNeg(b))

RMul(a, b) ==
    LET g1 == GCD(Abs(a[1]), b[2])
        g2 == GCD(Abs(b[1]), a[2])
    IN  IF a[1] = 0 \/ b[1] = 0 THEN <<0, 1>>
        ELSE <<(a[1] \div g1) * (b[1] \div g2), (a[2] \div g2) * (b[2] \div g1)>>

\* numpy float division: x / 0 is inf, -inf or nan (a warning, no exception)
RDiv(a, b) ==
    IF b[1] = 0 THEN <<Sign(a[1]), 0>>
    ELSE RMul(a, <<Sign(b[1]) * b[2], Abs(b[1])>>)

\* a ** p for an integer p >= 1
RPow(a, p) == <<a[1] ^ p, a[2] ^ p>>

RLt(a, b) == RSub(a, b)[1] < 0

RECURSIVE RSum(_)
RSum(s) == IF s = <<>> THEN <<0, 1>> ELSE RAdd(Head(s), RSum(Tail(s)))

\* n * 10^e < d, for n >= 0 and d > 0, without forming 10^e
RECURSIVE LtPow10(_, _, _)
LtPow10(n, d, e) ==
    IF e = 0 THEN n < d ELSE LtPow10(n, ((d - 1) \div 10) + 1, e - 1)

\* abs(a) < 1e-<e>; a comparison with nan is False
WithinTol(a, e) == IsFinite(a) /\ LtPow10(Abs(a[1]), a[2], e)

----------------------------------------------------------------------------
(* Array helpers                                                           *)

\* range(start, stop, step) for step > 0
RECURSIVE Range(_, _, _)
Range(start, stop, step) ==
    IF start >= stop THEN <<>>
    ELSE <<start>> \o Range(start + step, stop, step)

\* s / c, elementwise
DivBy(s, c) == [k \in 1..Len(s) |-> RDiv(s[k], c)]

\* s[1:], the slice that drops the first element instead of the last
DropFirst(s) == IF s = <<>> THEN <<>> ELSE Tail(s)

\* s[:-1]
DropLast(s) == IF s = <<>> THEN <<>> ELSE SubSeq(s, 1, Len(s) - 1)

\* (bins[:-1] + bins[1:]) / 2
Centres(bins) ==
    [k \in 1..(Len(bins) - 1) |-> RDiv(RAdd(bins[k], bins[k + 1]), R(2))]

----------------------------------------------------------------------------
(* plot_pdf                                                                *)

TOL_PDF == 8     \* assert abs(x[n]) < 1e-8
TOL_HIST == 10   \* assert abs(x[n]) < 1e-10

\* the check of a run that does not execute its assert statements
assert_skipped(x, n, e) == "none"

\* assert abs(x[n]) < 1e-<e>: the exception it raises, if any
assert_centred(x, n, e) ==
    IF WithinTol(x[n + 1], e) THEN "none" ELSE "AssertionError"

NoResult == [curves |-> <<>>, printed |-> <<>>, err |-> "none"]

\* the density with the bin size left out of the normalisation
density_per_bin(row, Ns, bin_size) ==
    [b \in 1..Len(row) |-> RDiv(R(row[b]), R(Ns))]

\* g['hist'][r, :] / (Ns * bin_size)
density(row, Ns, bin_size) ==
    [b \in 1..Len(row) |-> RDiv(R(row[b]), RMul(R(Ns), bin_size))]

\* One pass of the loop body of plot_pdf for row r; acc is what the earlier
\* passes plotted and printed.
pdf_row(g, rs, x, bin_size, moment, r, acc) ==
    IF r >= Len(g.total_samples) \/ r >= Len(g.hist)
    THEN [acc EXCEPT !.err = "IndexError"]
    ELSE
    LET Ns == g.total_samples[r + 1]
        row == g.hist[r + 1]
        pdf == density(row, Ns, bin_size)
        integral == RMul(RSum(pdf), bin_size)
        out == [acc EXCEPT !.printed = Append(@, integral)]
        n == Len(pdf) \div 2
        weighted == [b \in 1..Len(pdf) |->
                        RMul(pdf[b], RPow(x[IF Len(x) = 1 THEN 1 ELSE b], moment))]
        nulled == [weighted EXCEPT ![n + 1] = NaN]
        y == IF moment # 0 THEN nulled ELSE pdf
    IN  IF moment # 0 /\ Len(x) # Len(pdf) /\ Len(x) # 1
        THEN [out EXCEPT !.err = "ValueError"]
        ELSE IF moment # 0 /\ n >= Len(x)
        THEN [out EXCEPT !.err = "IndexError"]
        ELSE IF moment # 0 /\ assert_centred(x, n, TOL_PDF) # "none"
        THEN [out EXCEPT !.err = assert_centred(x, n, TOL_PDF)]
        ELSE IF Len(x) # Len(y)
        THEN [out EXCEPT !.err = "ValueError"]
        ELSE [out EXCEPT !.curves =
                 Append(@, [x |-> x, y |-> y, label |-> rs[r + 1]])]

RECURSIVE pdf_rows(_, _, _, _, _, _, _)
pdf_rows(g, rs, x, bin_size, moment, rows, acc) ==
    IF rows = <<>> \/ acc.err # "none" THEN acc
    ELSE pdf_rows(g, rs, x, bin_size, moment, Tail(rows),
                  pdf_row(g, rs, x, bin_size, moment, Head(rows), acc))

\* plot_pdf(ax, g, params, moment) with g = q.Histogram and g.parent = q.
\* The result holds the curves drawn on ax, the integrals printed, and the
\* exception raised, if any.
plot_pdf(q, prm, moment) ==
    IF "loop_sizes" \notin q.keys THEN [NoResult EXCEPT !.err = "KeyError"]
    ELSE
    LET g == q.Histogram
        rs == DivBy(q.loop_sizes, prm.nxi)
        Nr == Len(rs)
        bins == DivBy(g.bin_edges, prm.kappa)
        x == Centres(bins)
    IN  IF Len(bins) < 2 THEN [NoResult EXCEPT !.err = "IndexError"]
        ELSE pdf_rows(g, rs, x, RSub(bins[2], bins[1]), moment,
                      Range(1, Nr, 5), NoResult)

----------------------------------------------------------------------------
(* Logarithms.  np.log(a) is kept exact: [k |-> "fin", a |-> q] stands for  *)
(* log(q) with q > 0; log(0) is -inf and log of a negative number is nan.  *)

LogOf(q) == [k |-> "fin", a |-> q]
LogInf(s) == [k |-> IF s > 0 THEN "+inf" ELSE "-inf", a |-> R(1)]
LogNaN == [k |-> "nan", a |-> R(1)]

Log(a) ==
    IF a = PosInf THEN LogInf(1)
    ELSE IF ~IsFinite(a) THEN LogNaN
    ELSE IF a[1] > 0 THEN LogOf(a)
    ELSE IF a[1] = 0 THEN LogInf(-1)
    ELSE LogNaN

\* sign of a log value: log(q) > 0 iff q > 1
LogSign(u) ==
    IF u.k = "+inf" THEN 1
    ELSE IF u.k = "-inf" THEN -1
    ELSE Sign(u.a[1] - u.a[2])

\* u - v: log(a) - log(b) = log(a / b)
LogSub(u, v) ==
    IF u.k = "nan" \/ v.k = "nan" THEN LogNaN
    ELSE IF u.k = "fin" /\ v.k = "fin" THEN LogOf(RDiv(u.a, v.a))
    ELSE IF u.k = "fin" THEN LogInf(-LogSign(v))
    ELSE IF v.k = "fin" THEN u
    ELSE IF u.k = v.k THEN LogNaN
    ELSE u

Primes == <<2, 3, 5, 7>>

\* exponent of the prime p in the integer n >= 1
RECURSIVE Val(_, _)
Val(p, n) == IF n % p # 0 THEN 0 ELSE 1 + Val(p, n \div p)

\* n with every factor p removed
RECURSIVE Strip(_, _)
Strip(p, n) == IF n % p # 0 THEN n ELSE Strip(p, n \div p)

RECURSIVE StripAll(_, _)
StripAll(ps, n) ==
    IF ps = <<>> THEN n ELSE StripAll(Tail(ps), Strip(Head(ps), n))

\* exponents of Primes in the rational q > 0
Expts(q) == [j \in 1..Len(Primes) |-> Val(Primes[j], q[1]) - Val(Primes[j], q[2])]

Smooth(q) == StripAll(Primes, q[1]) = 1 /\ StripAll(Primes, q[2]) = 1

\* log(a) / log(b) for rationals a, b > 0 with b # 1.  The quotient is the
\* rational s / t when a^t = b^s; otherwise it is irrational and is kept as
\* the unevaluated quotient <<a[1], a[2], b[1], b[2]>>.
LogRatio(a, b) ==
    LET va == Expts(a)
        vb == Expts(b)
        j == CHOOSE i \in 1..Len(Primes) : vb[i] # 0
    IN  IF a = R(1) THEN R(0)
        ELSE IF a = b THEN R(1)
        ELSE IF Smooth(a) /\ Smooth(b)
                /\ \A i \in 1..Len(Primes) : va[i] * vb[j] = vb[i] * va[j]
        THEN Rat(va[j], vb[j])
        ELSE <<a[1], a[2], b[1], b[2]>>

\* u / v as a float
LogDiv(u, v) ==
    IF u.k = "nan" \/ v.k = "nan" THEN NaN
    ELSE IF v.k # "fin" THEN (IF u.k = "fin" THEN R(0) ELSE NaN)
    ELSE IF LogSign(v) = 0 THEN <<LogSign(u), 0>>
    ELSE IF u.k # "fin" THEN <<LogSign(u) * LogSign(v), 0>>
    ELSE LogRatio(u.a, v.a)

----------------------------------------------------------------------------
(* load_moments, moments_from_histogram                                    *)

load_moments(g) == [ps |-> g.p_abs, Mabs |-> g.M_abs, err |-> "none"]

\* np.arange(1, 21, step=1)
ps_hist == Range(1, 21, 1)

NoMoments == [ps |-> <<>>, Mabs |-> <<>>, err |-> "none"]

\* np.sum(hist * np.abs(x)**p, axis=1)[r]
moment_sum(row, x, p) ==
    RSum([b \in 1..Len(row) |-> RMul(R(row[b]), RPow(RAbs(x[b]), p))])

moments_from_histogram(g) ==
    LET hist == g.hist
        x0 == Centres(g.bin_edges)
        n == Len(x0) \div 2
        x == [x0 EXCEPT ![n + 1] = R(0)]
        Nr == Len(hist)
    IN  IF n >= Len(x0) THEN [NoMoments EXCEPT !.err = "IndexError"]
        ELSE IF assert_centred(x0, n, TOL_HIST) # "none"
        THEN [NoMoments EXCEPT !.err = assert_centred(x0, n, TOL_HIST)]
        ELSE IF \E r \in 1..Nr : Len(hist[r]) # Len(x)
        THEN [NoMoments EXCEPT !.err = "ValueError"]
        ELSE [ps |-> ps_hist,
              Mabs |-> [r \in 1..Nr |->
                          [i \in 1..Len(ps_hist) |-> moment_sum(hist[r], x, ps_hist[i])]],
              err |-> "none"]

----------------------------------------------------------------------------
(* plot_moments                                                            *)

\* numpy broadcasting of two 1-d arrays of lengths la and lb: the length of
\* the result, or -1 when the shapes do not broadcast
BroadcastLen(la, lb) ==
    IF la = lb THEN la
    ELSE IF la = 1 THEN lb
    ELSE IF lb = 1 THEN la
    ELSE -1

\* the length of s[1:] and of s[:-1] for an array of length n
DiffLen(n) == IF n = 0 THEN 0 ELSE n - 1

\* (rs[1:] + rs[:-1]) / 2
midpoints(rs) ==
    [k \in 1..(Len(rs) - 1) |-> RDiv(RAdd(rs[k + 1], rs[k]), R(2))]

\* the quotient with the denominator rl[1:] in place of rl[1:] - rl[:-1]
logdiff_undifferenced(M, rl) ==
    LET Ml == [k \in 1..Len(M) |-> Log(M[k])]
    IN  [k \in 1..DiffLen(Len(M)) |-> LogDiv(LogSub(Ml[k + 1], Ml[k]), rl[k + 1])]

\* (Ml[1:] - Ml[:-1]) / (rl[1:] - rl[:-1]) with Ml = np.log(M)
logdiff_of(M, rl) ==
    LET Ml == [k \in 1..Len(M) |-> Log(M[k])]
        dM == [k \in 1..(Len(Ml) - 1) |-> LogSub(Ml[k + 1], Ml[k])]
        dr == [k \in 1..(Len(rl) - 1) |-> LogSub(rl[k + 1], rl[k])]
        len == BroadcastLen(Len(dM), Len(dr))
    IN  [k \in 1..len |->
            LogDiv(dM[IF Len(dM) = 1 THEN 1 ELSE k],
                   dr[IF Len(dr) = 1 THEN 1 ELSE k])]

\* M[:] /= kappa ** p
scaled(M, kappa, p) == [k \in 1..Len(M) |-> RDiv(M[k], RPow(kappa, p))]

\* Mabs with column i (0-based) replaced by M: what the in-place division
\* through the view M = Mabs[:, i] leaves in the array Mabs
SetColumn(Mabs, i, M) ==
    [k \in 1..Len(Mabs) |-> [Mabs[k] EXCEPT ![i + 1] = M[k]]]

\* One pass of the loop of plot_moments, for column i.  acc.Mabs is the
\* array Mabs of this call as the earlier passes left it.
moments_column(rs, rl, kappa, ps, logdiff, i, acc) ==
    IF \E k \in 1..Len(acc.Mabs) : i >= Len(acc.Mabs[k])
    THEN [acc EXCEPT !.err = "IndexError"]
    ELSE
    LET p == ps[i + 1]
        M == [k \in 1..Len(acc.Mabs) |-> acc.Mabs[k][i + 1]]
        x == IF logdiff THEN midpoints(rs) ELSE rs
        y == IF logdiff THEN logdiff_of(M, rl) ELSE scaled(M, kappa, p)
        out == IF logdiff THEN acc
               ELSE [acc EXCEPT !.Mabs = SetColumn(@, i, y)]
    IN  IF logdiff /\ BroadcastLen(DiffLen(Len(M)), DiffLen(Len(rl))) = -1
        THEN [acc EXCEPT !.err = "ValueError"]
        ELSE IF Len(x) # Len(y)
        THEN [out EXCEPT !.err = "ValueError"]
        ELSE [out EXCEPT !.curves =
                 Append(@, [x |-> x, y |-> y, label |-> R(p)])]

RECURSIVE moments_columns(_, _, _, _, _, _, _)
moments_columns(rs, rl, kappa, ps, logdiff, cols, acc) ==
    IF cols = <<>> \/ acc.err # "none" THEN acc
    ELSE moments_columns(rs, rl, kappa, ps, logdiff, Tail(cols),
             moments_column(rs, rl, kappa, ps, logdiff, Head(cols), acc))

\* The columns that plot_moments plots: range(1, Np, 2)
plotted_columns(Np) == Range(1, Np, 2)

\* plot_moments(ax, g, params, logdiff) with g = q[gname] and g.parent = q.
\* The result holds the curves drawn on ax, the array Mabs of the call as
\* the call left it, and the exception raised, if any.
plot_moments(q, gname, prm, logdiff) ==
    LET m == IF gname = "Moments" THEN load_moments(q.Moments)
             ELSE moments_from_histogram(q.Histogram)
        rs == DivBy(DropLast(q.loop_sizes), prm.nxi)
        rl == [k \in 1..Len(rs) |-> Log(rs[k])]
        acc0 == [curves |-> <<>>, Mabs |-> DropLast(m.Mabs), err |-> "none"]
    IN  IF m.err # "none" THEN [acc0 EXCEPT !.err = m.err, !.Mabs = <<>>]
        ELSE IF "loop_sizes" \notin q.keys
        THEN [acc0 EXCEPT !.err = "KeyError", !.Mabs = <<>>]
        ELSE moments_columns(rs, rl, prm.kappa, m.ps, logdiff,
                             plotted_columns(Len(m.ps)), acc0)

----------------------------------------------------------------------------
(* output_filename.  A file name is a sequence of one-character strings.   *)

H5 == <<".", "h", "5">>
SVG == <<".", "s", "v", "g">>
HIST == <<"_", "h", "i", "s", "t">>

StartsWith(s, t) == Len(s) >= Len(t) /\ SubSeq(s, 1, Len(t)) = t

\* str.replace(old, new): every non-overlapping occurrence of old, scanning
\* from the left (old is not empty)
RECURSIVE Replace(_, _, _)
Replace(s, old, new) ==
    IF s = <<>> THEN <<>>
    ELSE IF StartsWith(s, old)
    THEN new \o Replace(SubSeq(s, Len(old) + 1, Len(s)), old, new)
    ELSE <<Head(s)>> \o Replace(Tail(s), old, new)

output_filename(filein_h5, hist_flag) ==
    LET suffix == IF hist_flag THEN HIST ELSE <<>>
    IN  Replace(filein_h5, H5, suffix \o SVG)

----------------------------------------------------------------------------
(* The data store.  A quantity group holds loop_sizes and the subgroups     *)
(* Histogram and Moments; keys is the set of names present in the group.   *)

\* the keys of QUANTITIES in alphabetical order
QUANTITIES_sorted == <<"Momentum", "RegVelocity", "Velocity">>

\* QUANTITIES, in declaration order
QUANTITIES == <<"Velocity", "RegVelocity", "Momentum">>

AllKeys == {"loop_sizes", "Histogram", "Moments"}

\* nb + 1 linearly spaced edges of width w; the central bin is centred at off
Edges(nb, w, off) ==
    [k \in 1..(nb + 1) |-> RAdd(off, RMul(w, Rat(2 * (k - 1) - nb, 2)))]

RECURSIVE SumInts(_)
SumInts(s) == IF s = <<>> THEN 0 ELSE Head(s) + SumInts(Tail(s))

\* a histogram over edges whose rows count hist[r] samples inside the bin
\* range and lost[r] samples outside of it
Histogram(hist, edges, lost) ==
    [hist |-> hist, bin_edges |-> edges,
     total_samples |-> [r \in 1..Len(hist) |-> SumInts(hist[r]) + lost[r]]]

QGroup(keys, loop_sizes, h, M_abs, p_abs) ==
    [keys |-> keys, loop_sizes |-> loop_sizes, Histogram |-> h,
     Moments |-> [M_abs |-> M_abs, p_abs |-> p_abs]]

----------------------------------------------------------------------------
(* The module-level code: lines 119-173                                    *)

\* STATS_FILE = 'tangle_1024.h5'
STATS_FILE ==
    <<"t", "a", "n", "g", "l", "e", "_", "1", "0", "2", "4", ".", "h", "5">>

\* moment = 20
MOMENT == 20

At(at, j, i) == [at |-> at, j |-> j, i |-> i]

NoAxes == [i \in 0..2 |-> [j \in 0..2 |-> <<>>]]

NoParams == [kappa |-> R(0), xi |-> R(0), nxi |-> R(0)]

\* an entry of trace: the call op made for QUANTITIES key on axes[i, j];
\* open tells whether the file object was open when the call was made
Event(op, key, grp, i, j, moment, logdiff) ==
    [op |-> op, key |-> key, grp |-> grp, i |-> i, j |-> j,
     moment |-> moment, logdiff |-> logdiff, open |-> ff = "open"]

\* control that goes on to the next statement whatever was raised
Propagate_swallowed(e, next) == next

\* Where control goes after a statement of the with block: an exception is
\* not caught anywhere, so it leaves the block through the context
\* manager's __exit__; otherwise the next statement runs.
Propagate(e, next) == IF e # "none" THEN At("exit", 0, 0) ELSE next

\* an exit that closes the file only when the block ended normally
file_exit_on_success(f, e) == IF e = "none" THEN "closed" ELSE f

\* h5py.File.__exit__ closes the file, whatever left the block
file_exit(f, e) == "closed"

\* After the with block: an exception ends the process with a traceback,
\* otherwise line 173 runs.
after_with(e) == IF e # "none" THEN At("aborted", 0, 0) ELSE At("show", 0, 0)

\* a dataset that shares its rows with the array read from it: the rows
\* the call retained hold what the call left in them
dataset_aliased(stored, local) ==
    [k \in 1..Len(stored) |-> IF k <= Len(local) THEN local[k] ELSE stored[k]]

\* What the file holds for a dataset after a call has worked in place on
\* the array `local` it read from it: g['M_abs'][:, :] copies the dataset
\* into a new array, and the file is opened read-only.
dataset_after(stored, local) == stored

\* gname = 'Histogram' if MOMENTS_FROM_HISTOGRAM else 'Moments'
gname_of(hist_flag) == IF hist_flag THEN "Histogram" ELSE "Moments"

\* with h5py.File(STATS_FILE, 'r') as ff:
Open ==
    /\ pc.at = "open"
    /\ trace' = Append(trace, Event("open", "", "", 0, 0, 0, FALSE))
    /\ IF store.exists
       THEN /\ ff' = "open"
            /\ pc' = At("params", 0, 0)
            /\ err' = err
       ELSE /\ ff' = ff
            /\ pc' = At("aborted", 0, 0)
            /\ err' = "OSError"
    /\ UNCHANGED <<flag, store, params, axes, printed, saved, shown, arg, ret>>

\* lines 120-125
ReadParams ==
    /\ pc.at = "params"
    /\ trace' = Append(trace, Event("params", "", "ParamsGP", 0, 0, 0, FALSE))
    /\ LET e == IF "ParamsGP" \in store.keys THEN "none" ELSE "KeyError"
       IN  /\ params' = IF e = "none" THEN store.ParamsGP ELSE params
           /\ err' = e
           /\ pc' = Propagate(e, At("subplots", 0, 0))
    /\ UNCHANGED <<flag, store, ff, axes, printed, saved, shown, arg, ret>>

\* lines 127-130
Subplots ==
    /\ pc.at = "subplots"
    /\ trace' = Append(trace, Event("subplots", "", "Circulation", 0, 0, 0, FALSE))
    /\ LET e == IF "Circulation" \in store.keys THEN "none" ELSE "KeyError"
       IN  /\ err' = e
           /\ pc' = Propagate(e, At("pdf", 0, 0))
    /\ axes' = NoAxes
    /\ UNCHANGED <<flag, store, ff, params, printed, saved, shown, arg, ret>>

\* lines 133-146
PlotPdf ==
    /\ pc.at = "pdf"
    /\ LET j == pc.j
           key == QUANTITIES[j + 1]
           g == store.Circulation[key]
           res == IF "Histogram" \in g.keys THEN plot_pdf(g, params, MOMENT)
                  ELSE [NoResult EXCEPT !.err = "KeyError"]
       IN  /\ trace' = Append(trace, Event("pdf", key, "Histogram", 0, j, MOMENT, FALSE))
           /\ axes' = [axes EXCEPT ![0][j] = @ \o res.curves]
           /\ printed' = printed \o res.printed
           /\ err' = res.err
           /\ pc' = Propagate(res.err, At("moments", j, 1))
    /\ UNCHANGED <<flag, store, ff, params, saved, shown, arg, ret>>

\* lines 148-166, one pass of "for i in (1, 2)"
PlotMoments ==
    /\ pc.at = "moments"
    /\ LET j == pc.j
           i == pc.i
           key == QUANTITIES[j + 1]
           g == store.Circulation[key]
           logdiff == (i = 2)
           gname == gname_of(flag)
           res == IF gname \in g.keys THEN plot_moments(g, gname, params, logdiff)
                  ELSE [curves |-> <<>>, Mabs |-> <<>>, err |-> "KeyError"]
           next == IF i = 1 THEN At("moments", j, 2)
                   ELSE IF j + 1 < Len(QUANTITIES) THEN At("pdf", j + 1, 0)
                   ELSE At("save", 0, 0)
       IN  /\ trace' = Append(trace, Event("moments", key, gname, i, j, 0, logdiff))
           /\ axes' = [axes EXCEPT ![i][j] = @ \o res.curves]
           /\ store' = IF gname = "Moments" /\ gname \in g.keys
                       THEN [store EXCEPT !.Circulation[key].Moments.M_abs =
                                            dataset_after(@, res.Mabs)]
                       ELSE store
           /\ err' = res.err
           /\ pc' = Propagate(res.err, next)
    /\ UNCHANGED <<flag, ff, params, printed, saved, shown, arg, ret>>

\* lines 169-171
Save ==
    /\ pc.at = "save"
    /\ trace' = Append(trace, Event("savefig", "", "", 0, 0, 0, FALSE))
    /\ saved' = Append(saved, output_filename(STATS_FILE, flag))
    /\ pc' = At("exit", 0, 0)
    /\ UNCHANGED <<flag, store, ff, params, axes, printed, shown, err, arg, ret>>

\* the end of the with block, reached normally or by an exception
ExitWith ==
    /\ pc.at = "exit"
    /\ trace' = Append(trace, Event("close", "", "", 0, 0, 0, FALSE))
    /\ ff' = file_exit(ff, err)
    /\ pc' = after_with(err)
    /\ UNCHANGED <<flag, store, params, axes, printed, saved, shown, err, arg, ret>>

\* line 173
Show ==
    /\ pc.at = "show"
    /\ trace' = Append(trace, Event("show", "", "", 0, 0, 0, FALSE))
    /\ shown' = TRUE
    /\ pc' = At("done", 0, 0)
    /\ UNCHANGED <<flag, store, ff, params, axes, printed, saved, err, arg, ret>>

----------------------------------------------------------------------------
(* The stores the run is checked on                                        *)

RunNr == 3      \* rows of an ordinary quantity group
MaxCount == 2   \* largest count in a histogram bin

ParamSets ==
    { [kappa |-> R(1), xi |-> R(1), nxi |-> R(1)],
      [kappa |-> R(2), xi |-> R(5), nxi |-> R(3)] }

\* Nr rows over three bins of width w whose central bin is centred at off;
\* row r holds r % (MaxCount + 1) samples left of the centre and lost
\* one sample in odd rows; M_abs[r, p] = r^p for p_abs = 1, 2, 3, 4.
Group(keys, Nr, NrM, w, off) ==
    QGroup(keys,
           [r \in 1..Nr |-> R(r)],
           Histogram([r \in 1..Nr |-> <<r % (MaxCount + 1), 1, MaxCount>>],
                     Edges(3, R(w), R(off)),
                     [r \in 1..Nr |-> r % 2]),
           [r \in 1..NrM |-> [i \in 1..4 |-> R(r ^ i)]],
           <<1, 2, 3, 4>>)

RunVariants ==
    { Group(AllKeys, RunNr, RunNr, 2, 0),                \* well formed
      Group(AllKeys, RunNr + 4, RunNr + 4, 2, 0),        \* two PDF rows
      Group(AllKeys, RunNr, RunNr, 1, 1),                \* off centre
      Group(AllKeys, 1, 1, 1, 1),                        \* off centre, one row
      Group(AllKeys \ {"Moments"}, RunNr, RunNr, 2, 0),  \* missing group
      Group(AllKeys, RunNr, RunNr + 1, 2, 0) }           \* rows do not match

Store(exists, keys, prm, circ) ==
    [exists |-> exists, keys |-> keys, ParamsGP |-> prm, Circulation |-> circ]

QuantityKeys == {QUANTITIES[k] : k \in 1..Len(QUANTITIES)}

Init ==
    /\ flag \in BOOLEAN
    /\ store \in
        { Store(TRUE, {"ParamsGP", "Circulation"}, prm, circ) :
              prm \in ParamSets, circ \in [QuantityKeys -> RunVariants] }
        \cup
        { Store(e, k, NoParams, [q \in QuantityKeys |-> Group(AllKeys, 1, 1, 2, 0)]) :
              e \in {FALSE}, k \in {{}} }
        \cup
        { Store(TRUE, k, NoParams, [q \in QuantityKeys |-> Group(AllKeys, 1, 1, 2, 0)]) :
              k \in {{"Circulation"}, {"ParamsGP"}} }
    /\ pc = At("open", 0, 0)
    /\ ff = "unopened"
    /\ params = NoParams
    /\ axes = NoAxes
    /\ printed = <<>>
    /\ trace = <<>>
    /\ saved = <<>>
    /\ shown = FALSE
    /\ err = "none"
    /\ arg = <<>>
    /\ ret = <<>>

Next ==
    \/ Open
    \/ ReadParams
    \/ Subplots
    \/ PlotPdf
    \/ PlotMoments
    \/ Save
    \/ ExitWith
    \/ Show

Spec == Init /\ [][Next]_vars

----------------------------------------------------------------------------
(* Single calls of the functions, on inputs drawn from bounded sets        *)

MaxNr == 4      \* most loop sizes of a plot_moments input
MaxRows == 2    \* most rows of a moments_from_histogram input
MaxStem == 4    \* most characters before the final '.h5' of a file name

Counts == 0..MaxCount

\* the histogram rows over three bins that hold at least one sample
Rows3 == {row \in [1..3 -> Counts] : SumInts(row) > 0}

\* the run's variables, unused by a single call
Idle ==
    /\ flag = FALSE
    /\ store = <<>>
    /\ ff = "unopened"
    /\ params = NoParams
    /\ axes = NoAxes
    /\ printed = <<>>
    /\ trace = <<>>
    /\ saved = <<>>
    /\ shown = FALSE
    /\ err = "none"

IdleVars == <<flag, store, ff, params, axes, printed, trace, saved, shown, err>>

\* --- plot_pdf ---

\* a group of Nr rows: row 1 (the first row plotted) is `row` and lost
\* `l1` samples, every other row is `row` reversed and lost `l2` samples
PdfGroup(Nr, row, l1, l2, w, off) ==
    QGroup(AllKeys,
           [r \in 1..Nr |-> R(r)],
           Histogram([r \in 1..Nr |-> IF r = 2 THEN row
                                      ELSE <<row[3], row[2], row[1]>>],
                     Edges(3, w, off),
                     [r \in 1..Nr |-> IF r = 2 THEN l1 ELSE l2]),
           <<>>, <<>>)

InitPdf ==
    /\ Idle
    /\ arg \in
        { [fn |-> "plot_pdf", g |-> PdfGroup(Nr, row, l1, l2, w, off),
              params |-> prm, moment |-> m] :
              Nr \in {1, 2, 7}, row \in Rows3, l1 \in 0..1, l2 \in 0..1,
              w \in {R(1), R(2), Rat(1, 2)}, off \in {R(0)},
              prm \in ParamSets, m \in {0} }
        \cup
        { [fn |-> "plot_pdf", g |-> PdfGroup(Nr, row, l1, l1, R(1), off),
              params |-> prm, moment |-> MOMENT] :
              Nr \in {2, 7}, row \in Rows3, l1 \in 0..1, off \in {R(0), R(1)},
              prm \in ParamSets }
    /\ pc = At("call", 0, 0)
    /\ ret = <<>>

CallPlotPdf ==
    /\ pc.at = "call"
    /\ arg.fn = "plot_pdf"
    /\ ret' = plot_pdf(arg.g, arg.params, arg.moment)
    /\ pc' = At("returned", 0, 0)
    /\ UNCHANGED <<arg, IdleVars>>

NextPdf == CallPlotPdf

SpecPdf == InitPdf /\ [][NextPdf]_vars

\* the rows that a returned plot_pdf call has printed an integral for
PrintedRows == SubSeq(Range(1, Len(arg.g.loop_sizes), 5), 1, Len(ret.printed))

\* (C6) The integral that plot_pdf computes for a selected row r of a
\* linearly binned histogram, the sum over the bins of
\* hist[r, :] / (total_samples[r] * bin_size) times bin_size, is 1 when all
\* total_samples[r] > 0 samples of the row lie inside the bin range, and is
\* strictly less than 1 when some lie outside; with moment = 0 the curve
\* drawn for the row is this density.
C6_PdfIntegral ==
    (pc.at = "returned" /\ arg.fn = "plot_pdf") =>
        LET h == arg.g.Histogram
            bin_size == RDiv(RSub(h.bin_edges[2], h.bin_edges[1]), arg.params.kappa)
        IN  /\ ret.err = "none" => Len(ret.printed) = Len(Range(1, Len(arg.g.loop_sizes), 5))
            /\ \A n \in 1..Len(ret.printed) :
                LET r == PrintedRows[n]
                    inside == SumInts(h.hist[r + 1])
                IN  /\ inside = h.total_samples[r + 1] => ret.printed[n] = R(1)
                    /\ inside < h.total_samples[r + 1] => RLt(ret.printed[n], R(1))
            /\ arg.moment = 0 =>
                \A n \in 1..Len(ret.curves) :
                    RMul(RSum(ret.curves[n].y), bin_size) = ret.printed[n]

\* a call that printed the integral 1 for one row and less for another,
\* over bins whose size is not 1
C6_Witness ==
    /\ pc.at = "returned"
    /\ arg.fn = "plot_pdf"
    /\ arg.moment = 0
    /\ Len(ret.curves) = 2
    /\ RSub(arg.g.Histogram.bin_edges[2], arg.g.Histogram.bin_edges[1]) # arg.params.kappa
    /\ ret.printed[1] = R(1)
    /\ RLt(ret.printed[2], R(1))

\* --- load_moments and moments_from_histogram ---

\* the absolute moment of order p of the samples of a histogram row whose
\* samples lie at the bin centres x: the mean of |x|^p over the samples
expectation(row, x, p) ==
    RDiv(RSum([b \in 1..Len(row) |-> RMul(R(row[b]), RPow(RAbs(x[b]), p))]),
         R(SumInts(row)))

P_ABS == <<1, 2, 3, 4>>

\* a centred histogram with all samples inside the bin range, and the
\* Moments entity that holds the absolute moments of the same samples
ConsistentGroup(hist, w) ==
    QGroup(AllKeys,
           [r \in 1..Len(hist) |-> R(r)],
           Histogram(hist, Edges(3, w, R(0)), [r \in 1..Len(hist) |-> 0]),
           [r \in 1..Len(hist) |->
               [i \in 1..Len(P_ABS) |->
                   expectation(hist[r], Centres(Edges(3, w, R(0))), P_ABS[i])]],
           P_ABS)

InitMoments ==
    /\ Idle
    /\ arg \in
        { [fn |-> "moments", g |-> ConsistentGroup(hist, w)] :
              hist \in UNION {[1..Nr -> Rows3] : Nr \in 1..MaxRows},
              w \in {R(1), R(2)} }
    /\ pc = At("call", 0, 0)
    /\ ret = [direct |-> NoMoments, hist |-> NoMoments]

\* pc.i and pc.j tell which of the two loaders has been called
CallLoadMoments ==
    /\ pc.at = "call"
    /\ arg.fn = "moments"
    /\ pc.i = 0
    /\ ret' = [ret EXCEPT !.direct = load_moments(arg.g.Moments)]
    /\ pc' = At(IF pc.j = 1 THEN "returned" ELSE "call", pc.j, 1)
    /\ UNCHANGED <<arg, IdleVars>>

CallMomentsFromHistogram ==
    /\ pc.at = "call"
    /\ arg.fn = "moments"
    /\ pc.j = 0
    /\ ret' = [ret EXCEPT !.hist = moments_from_histogram(arg.g.Histogram)]
    /\ pc' = At(IF pc.i = 1 THEN "returned" ELSE "call", 1, pc.i)
    /\ UNCHANGED <<arg, IdleVars>>

NextMoments == CallLoadMoments \/ CallMomentsFromHistogram

SpecMoments == InitMoments /\ [][NextMoments]_vars

\* (C2) For a centred histogram and a Moments entity that holds the absolute
\* moments of the same samples, moments_from_histogram returns for every
\* row and every exponent shared with p_abs the value that load_moments
\* returns, whatever total_samples is.
C2_MomentsAgree ==
    (pc.at = "returned" /\ arg.fn = "moments") =>
        /\ ret.hist.err = "none"
        /\ Len(ret.hist.Mabs) = Len(ret.direct.Mabs)
        /\ \A r \in 1..Len(ret.direct.Mabs) :
             \A i \in 1..Len(ret.direct.ps) :
               \A k \in 1..Len(ret.hist.ps) :
                 ret.direct.ps[i] = ret.hist.ps[k] =>
                     ret.direct.Mabs[r][i] = ret.hist.Mabs[r][k]

\* --- plot_moments ---

RECURSIVE SortedSeq(_)
SortedSeq(S) ==
    IF S = {} THEN <<>>
    ELSE LET m == CHOOSE x \in S : \A y \in S : x <= y
         IN  <<m>> \o SortedSeq(S \ {m})

LoopValues == {1, 2, 3, 4, 6}

\* strictly increasing loop sizes, at most MaxNr of them
LoopSizeSeqs ==
    { SortedSeq(S) : S \in {T \in SUBSET LoopValues : Cardinality(T) \in 1..MaxNr} }

\* r ^ a for an integer r >= 1 and any integer a
IntPow(r, a) == IF a >= 0 THEN R(r ^ a) ELSE Rat(1, r ^ (-a))

\* the exponent of the power law in column i (0-based) for the base a
AlphaOf(a, i) == a + i - 1

\* M_abs[r, i] = c * loop_sizes[r] ^ AlphaOf(a, i); with bent, the moments
\* of the second row are doubled, which breaks the power law
PowerLawGroup(ls, a, c, bent) ==
    QGroup(AllKeys,
           [r \in 1..Len(ls) |-> R(ls[r])],
           Histogram([r \in 1..Len(ls) |-> <<r % (MaxCount + 1), 1, MaxCount>>],
                     Edges(3, R(2), R(0)),
                     [r \in 1..Len(ls) |-> 0]),
           [r \in 1..Len(ls) |->
               [i \in 1..Len(P_ABS) |->
                   RMul(R(IF bent /\ r = 2 THEN 2 * c ELSE c),
                        IntPow(ls[r], AlphaOf(a, i - 1)))]],
           P_ABS)

ScaleSets ==
    ParamSets \cup {[kappa |-> Rat(1, 2), xi |-> R(1), nxi |-> Rat(3, 2)]}

InitPlotMoments ==
    /\ Idle
    /\ arg \in
        { [fn |-> "plot_moments", g |-> PowerLawGroup(ls, a, c, bent),
              gname |-> "Moments", params |-> prm, logdiff |-> ld,
              alpha |-> a, c |-> c, bent |-> bent] :
              ls \in LoopSizeSeqs, a \in -2..1, c \in {1, 3}, bent \in BOOLEAN,
              prm \in ScaleSets, ld \in BOOLEAN }
        \cup
        { [fn |-> "plot_moments", g |-> PowerLawGroup(ls, 0, 1, TRUE),
              gname |-> "Histogram", params |-> prm, logdiff |-> ld,
              alpha |-> 0, c |-> 1, bent |-> TRUE] :
              ls \in LoopSizeSeqs, prm \in ParamSets, ld \in BOOLEAN }
    /\ pc = At("call", 0, 0)
    /\ ret = <<>>

CallPlotMoments ==
    /\ pc.at = "call"
    /\ arg.fn = "plot_moments"
    /\ ret' = plot_moments(arg.g, arg.gname, arg.params, arg.logdiff)
    /\ pc' = At("returned", 0, 0)
    /\ UNCHANGED <<arg, IdleVars>>

NextPlotMoments == CallPlotMoments

SpecPlotMoments == InitPlotMoments /\ [][NextPlotMoments]_vars

\* the moments that the call loaded, before any row was dropped
LoadedMoments ==
    IF arg.gname = "Moments" THEN load_moments(arg.g.Moments)
    ELSE moments_from_histogram(arg.g.Histogram)

\* (C4) For an input with Nr >= 1 loop sizes, plot_moments uses exactly the
\* first Nr - 1 rows in both logdiff modes and for both moment sources: the
\* retained loop sizes and the retained moment rows both have length
\* Nr - 1, and the point (or the log-difference) drawn for row k pairs
\* moment row k with loop size k.
C4_DropsLastRow ==
    (pc.at = "returned" /\ arg.fn = "plot_moments") =>
        LET ls == arg.g.loop_sizes
            Nr == Len(ls)
            nxi == arg.params.nxi
            src == LoadedMoments
            cols == plotted_columns(Len(src.ps))
            rsk(k) == RDiv(ls[k], nxi)
        IN  /\ ret.err = "none"
            /\ Len(ret.Mabs) = Nr - 1
            /\ Len(ret.curves) = Len(cols)
            /\ \A n \in 1..Len(ret.curves) :
                LET c == ret.curves[n]
                    i == cols[n]
                    M(k) == src.Mabs[k][i + 1]
                IN  IF arg.logdiff
                    THEN /\ Len(c.x) = DiffLen(Nr - 1)
                         /\ Len(c.y) = DiffLen(Nr - 1)
                         /\ \A k \in 1..Len(c.x) :
                              /\ c.x[k] = RDiv(RAdd(rsk(k + 1), rsk(k)), R(2))
                              /\ c.y[k] = LogDiv(LogSub(Log(M(k + 1)), Log(M(k))),
                                                 LogSub(Log(rsk(k + 1)), Log(rsk(k))))
                    ELSE /\ Len(c.x) = Nr - 1
                         /\ Len(c.y) = Nr - 1
                         /\ \A k \in 1..(Nr - 1) :
                              /\ c.x[k] = rsk(k)
                              /\ c.y[k] = RDiv(M(k), RPow(arg.params.kappa, src.ps[i + 1]))

\* a call on three loop sizes that drew curves of two points from the
\* histogram moments
C4_Witness ==
    /\ pc.at = "returned"
    /\ arg.fn = "plot_moments"
    /\ arg.gname = "Histogram"
    /\ ~arg.logdiff
    /\ Len(arg.g.loop_sizes) = 3
    /\ Len(ret.curves) = 10
    /\ Len(ret.curves[1].x) = 2
    /\ ret.curves[1].x[2] = RDiv(arg.g.loop_sizes[2], arg.params.nxi)

\* (C7) With logdiff = true and power-law moments M(r) = c * r^alpha in
\* every plotted column, over increasing loop sizes, plot_moments draws the
\* value alpha at every midpoint between consecutive retained loop sizes,
\* whatever nxi, kappa and the prefactor c are.
C7_PowerLawExponent ==
    (/\ pc.at = "returned"
     /\ arg.fn = "plot_moments"
     /\ arg.gname = "Moments"
     /\ arg.logdiff
     /\ ~arg.bent) =>
        LET ls == arg.g.loop_sizes
            cols == plotted_columns(Len(P_ABS))
        IN  /\ ret.err = "none"
            /\ Len(ret.curves) = Len(cols)
            /\ \A n \in 1..Len(ret.curves) :
                LET c == ret.curves[n]
                IN  /\ Len(c.y) = DiffLen(Len(ls) - 1)
                    /\ Len(c.x) = Len(c.y)
                    /\ \A k \in 1..Len(c.y) :
                         /\ c.y[k] = R(AlphaOf(arg.alpha, cols[n]))
                         /\ c.x[k] = RDiv(RAdd(ls[k], ls[k + 1]),
                                          RMul(R(2), arg.params.nxi))

\* a power law with prefactor 3 over four loop sizes, scaled by nxi = 3/2
\* and kappa = 1/2, whose two midpoints both show the exponent
C7_Witness ==
    /\ pc.at = "returned"
    /\ arg.fn = "plot_moments"
    /\ arg.gname = "Moments"
    /\ arg.logdiff
    /\ ~arg.bent
    /\ arg.c = 3
    /\ arg.params.nxi = Rat(3, 2)
    /\ arg.params.kappa = Rat(1, 2)
    /\ Len(arg.g.loop_sizes) = 4
    /\ arg.alpha = -2
    /\ ret.curves[1].y = <<R(-2), R(-2)>>
    /\ ret.curves[2].y = <<R(0), R(0)>>

\* --- output_filename ---

Chars == {"a", ".", "h", "5"}

\* file names <stem>.h5 whose stem starts with a letter
FileNames ==
    { <<"a">> \o t \o H5 :
        t \in UNION {[1..n -> Chars] : n \in 0..(MaxStem - 1)} }

InitName ==
    /\ Idle
    /\ arg \in {[fn |-> "output_filename", name |-> f, hist_flag |-> b] :
                   f \in FileNames, b \in BOOLEAN}
    /\ pc = At("call", 0, 0)
    /\ ret = <<>>

CallOutputFilename ==
    /\ pc.at = "call"
    /\ arg.fn = "output_filename"
    /\ ret' = output_filename(arg.name, arg.hist_flag)
    /\ pc' = At("returned", 0, 0)
    /\ UNCHANGED <<arg, IdleVars>>

NextName == CallOutputFilename

SpecName == InitName /\ [][NextName]_vars

\* (C3) output_filename returns the input name with only its extension
\* '.h5' replaced by '.svg': the part before the extension is unchanged, the
\* result differs from the input, and '_hist' stands immediately before
\* '.svg' if and only if MOMENTS_FROM_HISTOGRAM is true.
C3_ExtensionReplaced ==
    (pc.at = "returned" /\ arg.fn = "output_filename") =>
        LET stem == SubSeq(arg.name, 1, Len(arg.name) - Len(H5))
        IN  /\ ret = stem \o (IF arg.hist_flag THEN HIST ELSE <<>>) \o SVG
            /\ ret # arg.name

----------------------------------------------------------------------------
(* Properties of the run                                                   *)

\* the centre of the central bin (index Nbins // 2) of a histogram
CentralCentre(h) ==
    LET x == Centres(h.bin_edges) IN x[(Len(x) \div 2) + 1]

Quantity(j) == store.Circulation[QUANTITIES[j + 1]]

\* the histogram of column j passes the check of plot_pdf
CentredForPdf(j) ==
    WithinTol(RDiv(CentralCentre(Quantity(j).Histogram), store.ParamsGP.kappa), TOL_PDF)

\* the histogram of column j passes the check of moments_from_histogram
CentredForMoments(j) ==
    WithinTol(CentralCentre(Quantity(j).Histogram), TOL_HIST)

NoCurves == \A i \in 0..2 : \A j \in 0..2 : axes[i][j] = <<>>

Reads == {"params", "subplots", "pdf", "moments"}

\* (C5) The data store is closed on every exit path: when the run has
\* ended, normally or by an assertion failure, a missing key or a shape
\* mismatch, the file that was opened is closed; every read of a group or
\* dataset is made while the file is open; and the figure is displayed only
\* after the file has been closed.
C5_ClosedOnEveryExit ==
    /\ pc.at \in {"done", "aborted"} =>
           ff = (IF store.exists THEN "closed" ELSE "unopened")
    /\ \A n \in 1..Len(trace) :
           /\ trace[n].op \in Reads => trace[n].open
           /\ trace[n].op = "show" => ~trace[n].open
    /\ shown => ff = "closed"

\* a run that ended in a shape mismatch, with the file closed
C5_Witness ==
    /\ pc.at = "aborted"
    /\ err = "ValueError"
    /\ ff = "closed"
    /\ trace[Len(trace)].op = "close"
    /\ trace[Len(trace) - 1].op = "moments"
    /\ trace[Len(trace) - 1].open

\* what an entry of trace says about the call, leaving out the file state
Call(e) == <<e.op, e.key, e.grp, e.i, e.j, e.moment, e.logdiff>>

\* the three calls made for quantity key in column j
ColumnCalls(key, j, grp) ==
    << <<"pdf", key, "Histogram", 0, j, 20, FALSE>>,
       <<"moments", key, grp, 1, j, 0, FALSE>>,
       <<"moments", key, grp, 2, j, 0, TRUE>> >>

\* (C8) A run that completes has read the parameters once, then processed
\* Velocity, RegVelocity and Momentum in this order in columns 0, 1 and 2,
\* each by the PDF with moment 20 on row 0, the moments with logdiff false
\* on row 1 and the moments with logdiff true on row 2, both from Histogram
\* if MOMENTS_FROM_HISTOGRAM and from Moments otherwise; it has written the
\* figure once, after all nine axes, and displayed it after that.
C8_FixedOrder ==
    pc.at = "done" =>
        LET grp == IF flag THEN "Histogram" ELSE "Moments"
        IN  /\ [n \in 1..Len(trace) |-> Call(trace[n])] =
                 << <<"open", "", "", 0, 0, 0, FALSE>>,
                    <<"params", "", "ParamsGP", 0, 0, 0, FALSE>>,
                    <<"subplots", "", "Circulation", 0, 0, 0, FALSE>> >>
                 \o ColumnCalls("Velocity", 0, grp)
                 \o ColumnCalls("RegVelocity", 1, grp)
                 \o ColumnCalls("Momentum", 2, grp)
                 \o << <<"savefig", "", "", 0, 0, 0, FALSE>>,
                       <<"close", "", "", 0, 0, 0, FALSE>>,
                       <<"show", "", "", 0, 0, 0, FALSE>> >>
            /\ Len(saved) = 1
            /\ shown

\* a completed run that took its moments from the histograms
C8_Witness ==
    /\ pc.at = "done"
    /\ flag
    /\ Len(trace) = 15
    /\ \A i \in 0..2 : \A j \in 0..2 : axes[i][j] # <<>>

\* the curves that plot_moments draws with logdiff false from the moments
\* M and exponents ps held by the store, over loop sizes ls
ScaledCurves(M, ps, ls) ==
    LET cols == plotted_columns(Len(ps))
    IN  [n \in 1..Len(cols) |->
            [x |-> [k \in 1..(Len(ls) - 1) |-> RDiv(ls[k], params.nxi)],
             y |-> [k \in 1..(Len(ls) - 1) |->
                      RDiv(M[k][cols[n] + 1], RPow(params.kappa, ps[cols[n] + 1]))],
             label |-> R(ps[cols[n] + 1])]]

\* With the moments read from the Moments groups, the curves of a complete
\* row-1 axis are the stored moments divided by kappa^p once, and the
\* curves of a complete row-2 axis are the log-differences of the stored
\* moments.
DrawnFromStore ==
    \A j \in 0..2 :
        LET q == Quantity(j)
            M == q.Moments.M_abs
            rs == DivBy(DropLast(q.loop_sizes), params.nxi)
            cols == plotted_columns(Len(q.Moments.p_abs))
        IN  (~flag /\ "Moments" \in q.keys /\ Len(M) = Len(q.loop_sizes)) =>
              /\ axes[1][j] # <<>> =>
                     axes[1][j] = ScaledCurves(M, q.Moments.p_abs, q.loop_sizes)
              /\ axes[2][j] # <<>> =>
                     \A n \in 1..Len(axes[2][j]) :
                         axes[2][j][n].y =
                             logdiff_of([k \in 1..Len(rs) |-> M[k][cols[n] + 1]],
                                        [k \in 1..Len(rs) |-> Log(rs[k])])

\* (C9) No plotting call changes what the data store holds: the in-place
\* operations of the calls act on arrays of their own, so the call with
\* logdiff true that follows the call with logdiff false, and the calls for
\* the later quantities, work on the stored values, and each column
\* plotted with logdiff false is the stored column divided by kappa^p once.
C9_StoreNotMutated == [][store' = store]_vars /\ []DrawnFromStore

\* the run has drawn both moment axes of the first column from Moments,
\* with kappa # 1, and goes on to the next quantity
C9_Witness ==
    /\ pc = At("pdf", 1, 0)
    /\ ~flag
    /\ params.kappa = R(2)
    /\ axes[2][0] # <<>>
    /\ Len(axes[1][0][1].y) >= 2
    /\ axes[1][0][1].y[2] = Rat(Quantity(0).Moments.M_abs[2][2][1], 4)
    /\ axes[1][0][1].y[2] # Quantity(0).Moments.M_abs[2][2]

\* (C10) A failure in the load and plot phase ends the run: once an
\* exception has been raised, no further statement of the block runs, the
\* image file is not written and the figure is not displayed; and an image
\* is written only by a run in which nothing has failed.
C10_FailureEndsRun ==
    /\ err # "none" =>
          /\ pc.at \in {"exit", "aborted"}
          /\ saved = <<>>
          /\ ~shown
    /\ \A n \in 1..Len(trace) :
          trace[n].op \in {"savefig", "show"} => err = "none"
    /\ pc.at = "aborted" => err # "none"

\* a run that ended in a missing key after it had plotted curves, with
\* nothing written or displayed
C10_Witness ==
    /\ pc.at = "aborted"
    /\ err = "KeyError"
    /\ axes[0][0] # <<>>
    /\ axes[1][0] # <<>>
    /\ saved = <<>>
    /\ ~shown

====
